---- MODULE Spec2Model ----
(***************************************************************************)
(* A model of lunixbochs/peoples-speech-prep:                              *)
(*   - resplit_tars (prepare.py:64-85, identical in tarsplit.py:41-65):    *)
(*     the generator that repacks a stream of tar members into archives    *)
(*     bounded by split_max;                                               *)
(*   - the metadata subset filter, build_subsets (prepare.py:97-123) and   *)
(*     make_subset (prepare_repo.py:9-39).                                 *)
(*   - do_tar_splits (prepare.py:150-177) and build_manifest              *)
(*     (prepare.py:125-148).                                               *)
(* Each is checked under its own specification: Spec (the splitter),       *)
(* SpecFair (the splitter, with its steps taken), SpecTwoRuns (two calls   *)
(* of the splitter), SpecFilter, SpecSplits and SpecManifest; each leaves  *)
(* the other components' variables alone.                                  *)
(***************************************************************************)
EXTENDS Integers, Sequences, FiniteSets, TLC

VARIABLES
    \* ---- resplit_tars ----
    input,      \* the members src_iter will produce, in order (iter_tars)
    split_max,  \* the split_max argument
    pos,        \* how many members have been pulled from src_iter
    info,       \* the loop variable info: 0 is None, else an index into input
    fileobj,    \* the loop variable fileobj: "None" or "file"
    n,          \* the itertools.count() value of the shard being built
    shards,     \* the output archives opened so far; shard k is shards[k+1]
    yielded,    \* the paths the generator has yielded, as shard indices
    pc,         \* the generator's position
    \* ---- build_subsets / make_subset ----
    impl,       \* which of the two filters runs
    tarnames,   \* tf.getnames() of the reference shard {split}_000000.tar
    lines,      \* the records of {split}.json, in file order
    filenames,  \* the set filenames
    todo,       \* the set todo
    li,         \* how many lines have been read
    out,        \* the records written to {split}_000000.json
    diag,       \* the diagnostic printed at the end: -1 none, else len(todo)
    fpc,        \* the filter's position
    \* ---- a second call of resplit_tars on the same input ----
    run,        \* which call is running: 1 or 2
    first,      \* what the first call wrote to each shard
    \* ---- do_tar_splits ----
    hasJson,    \* per split of SPLITS: root/{split}.json is a file
    hasDir,     \* per split of SPLITS: root/{split} is a directory
    di,         \* the index in SPLITS of the loop that is running
    made,       \* the destination directories created
    sharded,    \* the destinations that received shards
    copied,     \* the destinations whose metadata file was copied
    dpc,        \* the position in do_tar_splits
    \* ---- build_manifest ----
    nshards,    \* how many shards this run's resharding produced per split
    listing,    \* what iterdir() yields for a split directory, in its order
    mi,         \* the index in RENAMES.values() of the split being listed
    manifest,   \* manifest["splits"]
    written     \* manifest.json was written

svars == <<input, split_max, pos, info, fileobj, n, shards, yielded, pc>>
fvars == <<impl, tarnames, lines, filenames, todo, li, out, diag, fpc>>
rvars == <<run, first>>
dvars == <<hasJson, hasDir, di, made, sharded, copied, dpc>>
mvars == <<nshards, listing, mi, manifest, written>>
vars  == <<svars, fvars, rvars, dvars, mvars>>

----------------------------------------------------------------------------
(* Bounds of the model.                                                    *)

\* longest input stream of the bounded family
MaxEntries == 4
\* payload sizes are b*BLOCKSIZE + r, b \in 0..MaxSizeBlocks, r \in {0, 1}
MaxSizeBlocks == 1
\* split_max is k*BLOCKSIZE, k \in 1..MaxSplitBlocks
MaxSplitBlocks == 4
\* most lines of a metadata stream
MaxRecords == 2
\* most clips (column-tuples) of a metadata stream, over all its lines
MaxClips == 2
\* most shards one resharding of a split produces
MaxShards == 2

----------------------------------------------------------------------------
(* tar framing: tarfile.BLOCKSIZE, and the literal 512 of the size test.   *)

BLOCKSIZE == 512

\* the literal 512 in "size = 512 + info.size"
HEADER == 512

\* payload bytes as tarfile.addfile lays them out: padded to whole blocks
RoundUp(sz) == ((sz + BLOCKSIZE - 1) \div BLOCKSIZE) * BLOCKSIZE

Sizes == {b * BLOCKSIZE + r : b \in 0..MaxSizeBlocks, r \in {0, 1}}

\* A member is a regular file with a payload, or a directory-like member
\* (size 0), for which TarFile.extractfile returns None.
Members == {[size |-> s, reg |-> TRUE] : s \in Sizes}
             \cup {[size |-> 0, reg |-> FALSE]}

SplitMaxes == {k * BLOCKSIZE : k \in 1..MaxSplitBlocks}

RECURSIVE SeqsUpTo(_, _)
SeqsUpTo(S, k) ==
    IF k = 0 THEN {<<>>}
    ELSE LET shorter == SeqsUpTo(S, k - 1)
         IN  shorter \cup {Append(s, x) : s \in {t \in shorter : Len(t) = k - 1}, x \in S}

\* The stream of the specification's example: five regular members of
\* sizes 10, 90, 10, 90, 10, split with target size 150 and, for the
\* grouping 1-2 / 3-4 / 5 under 512-byte framing, 2560.
ExampleInput == [i \in 1..5 |-> [size |-> IF i \in {2, 4} THEN 90 ELSE 10, reg |-> TRUE]]
ExampleSplitMaxes == {150, 2560}

----------------------------------------------------------------------------
(* resplit_tars                                                            *)

\* tf.extractfile(info) in tqdm_tar_iter: a reader for a regular member,
\* None for any other
extractfile(e) == IF e.reg THEN "file" ELSE "None"

\* target_size = split_max - tarfile.BLOCKSIZE
target_size == split_max - BLOCKSIZE

\* size = 512 + info.size
framed(e) == HEADER + e.size

FitsNoReserve(offset, e) == offset + framed(e) <= split_max
FitsStrict(offset, e) == offset + framed(e) < target_size
\* the negation of the break test: tf.offset + size > target_size
Fits(offset, e) == offset + framed(e) <= target_size

EmptyShard == [entries |-> <<>>, offset |-> 0, closed |-> FALSE]

addfileNoPad(sh, i, fobj) ==
    [sh EXCEPT !.entries = Append(@, i),
               !.offset = @ + BLOCKSIZE
                            + (IF fobj = "file" THEN input[i].size ELSE 0)]

\* tf.addfile(info, fileobj): one header block (a member whose header
\* needs no extended-header blocks), then the payload in whole blocks when
\* there is a reader; tf.offset advances by what was written
addfile(sh, i, fobj) ==
    [sh EXCEPT !.entries = Append(@, i),
               !.offset = @ + BLOCKSIZE
                            + (IF fobj = "file" THEN RoundUp(input[i].size) ELSE 0)]

closeLeftOpen(sh) == sh

\* leaving the with block: the archive is closed
close(sh) == [sh EXCEPT !.closed = TRUE]

cur == shards[Len(shards)]

InitSplit ==
    /\ \/ /\ input \in SeqsUpTo(Members, MaxEntries)
          /\ split_max \in SplitMaxes
       \/ /\ input = ExampleInput
          /\ split_max \in ExampleSplitMaxes
    /\ pos = 0
    /\ info = 0
    /\ fileobj = "None"
    /\ n = 0
    /\ shards = <<>>
    /\ yielded = <<>>
    /\ pc = "open"

\* if info is not None and fileobj is not None
Carry == info # 0 /\ fileobj # "None"

\* for n in itertools.count(): tarfile.open(out_path, 'w'), then the held
\* member is written first
OpenShard ==
    /\ pc = "open"
    /\ shards' = Append(shards, IF Carry THEN addfile(EmptyShard, info, fileobj)
                                ELSE EmptyShard)
    /\ pc' = "pull"
    /\ UNCHANGED <<input, split_max, pos, info, fileobj, n, yielded>>

\* for info, fileobj in src_iter: the member fits and is written
PullFits ==
    /\ pc = "pull"
    /\ pos < Len(input)
    /\ Fits(cur.offset, input[pos + 1])
    /\ pos' = pos + 1
    /\ info' = pos + 1
    /\ fileobj' = extractfile(input[pos + 1])
    /\ shards' = [shards EXCEPT ![Len(shards)] = addfile(@, pos + 1, fileobj')]
    /\ UNCHANGED <<input, split_max, n, yielded, pc>>

PullBreakPeek ==
    /\ pc = "pull"
    /\ pos < Len(input)
    /\ Len(shards) <= MaxEntries + 3
    /\ ~Fits(cur.offset, input[pos + 1])
    /\ shards' = [shards EXCEPT ![Len(shards)] = close(@)]
    /\ pc' = "yield"
    /\ UNCHANGED <<input, split_max, pos, info, fileobj, n, yielded>>

\* the member does not fit: break, the with block closes the archive
PullBreak ==
    /\ pc = "pull"
    /\ pos < Len(input)
    /\ ~Fits(cur.offset, input[pos + 1])
    /\ pos' = pos + 1
    /\ info' = pos + 1
    /\ fileobj' = extractfile(input[pos + 1])
    /\ shards' = [shards EXCEPT ![Len(shards)] = close(@)]
    /\ pc' = "yield"
    /\ UNCHANGED <<input, split_max, n, yielded>>

\* src_iter is exhausted: the for-else breaks the outer loop, the with
\* block closes the archive
Exhausted ==
    /\ pc = "pull"
    /\ pos = Len(input)
    /\ shards' = [shards EXCEPT ![Len(shards)] = close(@)]
    /\ pc' = "last"
    /\ UNCHANGED <<input, split_max, pos, info, fileobj, n, yielded>>

\* yield out_path inside the loop, then the next n
YieldPath ==
    /\ pc = "yield"
    /\ yielded' = Append(yielded, n)
    /\ n' = n + 1
    /\ pc' = "open"
    /\ UNCHANGED <<input, split_max, pos, info, fileobj, shards>>

YieldLastNone ==
    /\ pc = "last"
    /\ pc' = "done"
    /\ UNCHANGED <<input, split_max, pos, info, fileobj, n, shards, yielded>>

\* yield out_path after the loop
YieldLast ==
    /\ pc = "last"
    /\ yielded' = Append(yielded, n)
    /\ pc' = "done"
    /\ UNCHANGED <<input, split_max, pos, info, fileobj, n, shards>>

----------------------------------------------------------------------------
(* build_subsets (prepare.py) and make_subset (prepare_repo.py)            *)

\* member and clip names: one spelled two ways, one that is no .flac file
Names == {"a.flac", "./a.flac", "b.flac", "c.txt"}

\* os.path.normpath on Names: "./a.flac" collapses to "a.flac"
normpath(s) == IF s = "./a.flac" THEN "a.flac" ELSE s

\* name.endswith('.flac') on Names
endswith_flac(s) == s \in {"a.flac", "./a.flac", "b.flac"}

\* train_keys = ['duration_ms', 'label', 'name', 'raw_label']
train_keys == {"duration_ms", "label", "name", "raw_label"}

\* a column the four train_keys do not name
ExtraColumn == "speaker"

\* One line of {split}.json: a passthrough field (id, the line's number)
\* and training_data, whose columns all have one value per clip. A value
\* of a column other than name is the clip's position in its line.
MkRecord(k, nl, cols) ==
    [id |-> k,
     training_data |-> [c \in cols |-> IF c = "name" THEN nl
                                       ELSE [p \in 1..Len(nl) |-> p]]]

RECURSIVE NameLists(_, _)
\* the streams' name columns: at most r lines, at most c clips in all
NameLists(r, c) ==
    IF r = 0 THEN {<<>>}
    ELSE {<<>>} \cup
         UNION {{<<nl>> \o rest : rest \in NameLists(r - 1, c - Len(nl))}
                   : nl \in SeqsUpTo(Names, c)}

Streams(cols) ==
    {[k \in 1..Len(nls) |-> MkRecord(k, nls[k], cols)]
        : nls \in NameLists(MaxRecords, MaxClips)}

\* filenames = set(tf.getnames()) in build_subsets;
\* set(os.path.normpath(name) for name in tf.getnames() if name.endswith('.flac'))
\* in make_subset
Filenames ==
    IF impl = "make_subset"
    THEN {normpath(t) : t \in {u \in tarnames : endswith_flac(u)}}
    ELSE tarnames

\* the name looked up in filenames: obj['name'] normalised in make_subset
LookupName(v) == IF impl = "make_subset" THEN normpath(v) ELSE v

\* the columns written back: the fixed train_keys in build_subsets,
\* list(train.keys()) in make_subset
OutKeys(td) == IF impl = "make_subset" THEN DOMAIN td ELSE train_keys

RECURSIVE Scan(_, _, _, _)
\* the loop over zip(*columns) from position i on: where a name is in
\* filenames it is removed from todo (set.remove raises KeyError when it is
\* not there) and the position is appended to valid
Scan(names, i, td, valid) ==
    IF i > Len(names) THEN [todo |-> td, valid |-> valid, raised |-> FALSE]
    ELSE LET name == LookupName(names[i])
         IN  IF name \in filenames
             THEN IF name \in td
                  THEN Scan(names, i + 1, td \ {name}, Append(valid, i))
                  ELSE [todo |-> td, valid |-> valid, raised |-> TRUE]
             ELSE Scan(names, i + 1, td, valid)

RealignNone(column, valid) == column

\* one column of zip(*valid): the values at the surviving positions
Realign(column, valid) == [p \in 1..Len(valid) |-> column[valid[p]]]

\* result = j.copy(); result['training_data'] = dict(zip(train_keys, zip(*valid)))
Result(j, valid) ==
    [j EXCEPT !.training_data =
        [c \in OutKeys(j.training_data) |-> Realign(j.training_data[c], valid)]]

InitFilter ==
    /\ impl \in {"build_subsets", "make_subset"}
    /\ tarnames \in SUBSET Names
    /\ lines \in Streams(train_keys) \cup Streams(train_keys \cup {ExtraColumn})
    /\ filenames = {}
    /\ todo = {}
    /\ li = 0
    /\ out = <<>>
    /\ diag = -1
    /\ fpc = "start"

\* with tarfile.open(first_tar) as tf: filenames, todo = filenames.copy()
OpenTar ==
    /\ fpc = "start"
    /\ filenames' = Filenames
    /\ todo' = Filenames
    /\ fpc' = "loop"
    /\ UNCHANGED <<impl, tarnames, lines, li, out, diag>>

\* one iteration of "for line in f" that runs to its end
FilterLine ==
    /\ fpc = "loop"
    /\ li < Len(lines)
    /\ LET j == lines[li + 1]
           r == Scan(j.training_data["name"], 1, todo, <<>>)
       IN  /\ ~r.raised
           /\ todo' = r.todo
           /\ out' = IF r.valid # <<>> THEN Append(out, Result(j, r.valid)) ELSE out
    /\ li' = li + 1
    /\ UNCHANGED <<impl, tarnames, lines, filenames, diag, fpc>>

\* one iteration in which todo.remove(name) raises KeyError: nothing is
\* written for the line and the pass ends there
FilterLineRaises ==
    /\ fpc = "loop"
    /\ li < Len(lines)
    /\ LET j == lines[li + 1]
           r == Scan(j.training_data["name"], 1, todo, <<>>)
       IN  /\ r.raised
           /\ todo' = r.todo
    /\ fpc' = "KeyError"
    /\ UNCHANGED <<impl, tarnames, lines, filenames, li, out, diag>>

\* after the loop: if todo: print(... missing {len(todo)} ...)
Report ==
    /\ fpc = "loop"
    /\ li = Len(lines)
    /\ diag' = IF todo # {} THEN Cardinality(todo) ELSE -1
    /\ fpc' = "done"
    /\ UNCHANGED <<impl, tarnames, lines, filenames, todo, li, out>>

\* resplit_tars does not run in this specification
SplitIdle ==
    /\ input = <<>>
    /\ split_max = 0
    /\ pos = 0
    /\ info = 0
    /\ fileobj = "None"
    /\ n = 0
    /\ shards = <<>>
    /\ yielded = <<>>
    /\ pc = "idle"

----------------------------------------------------------------------------
(* Two calls of resplit_tars on the same stream with the same split_max.   *)

\* what each shard holds, in shard order
ShardEntries == [k \in 1..Len(shards) |-> shards[k].entries]

\* no second call is made in the other specifications
RerunIdle ==
    /\ run = 1
    /\ first = <<>>

RerunKeepsLoopVars ==
    /\ pc = "done"
    /\ run = 1
    /\ first' = ShardEntries
    /\ run' = 2
    /\ pos' = 0
    /\ n' = 0
    /\ shards' = <<>>
    /\ yielded' = <<>>
    /\ pc' = "open"
    /\ UNCHANGED <<input, split_max, info, fileobj>>

\* The second call starts as the first did: its own info = fileobj = None,
\* a fresh src_iter over the same sorted src_tars, n from 0, and every
\* archive opened with mode 'w'.
Rerun ==
    /\ pc = "done"
    /\ run = 1
    /\ first' = ShardEntries
    /\ run' = 2
    /\ pos' = 0
    /\ info' = 0
    /\ fileobj' = "None"
    /\ n' = 0
    /\ shards' = <<>>
    /\ yielded' = <<>>
    /\ pc' = "open"
    /\ UNCHANGED <<input, split_max>>

----------------------------------------------------------------------------
(* do_tar_splits                                                           *)

\* SPLITS = ['cc_by_clean', 'cc_by_dirty', 'cc_by_sa_clean', 'cc_by_sa_dirty'],
\* each name as its parts between underscores
SPLITS == << <<"cc", "by", "clean">>, <<"cc", "by", "dirty">>,
             <<"cc", "by", "sa", "clean">>, <<"cc", "by", "sa", "dirty">> >>

\* 'by_sa' in name
has_by_sa(name) ==
    \E i \in 1..(Len(name) - 1) : name[i] = "by" /\ name[i + 1] = "sa"

\* rename_split: the part after the last underscore, with _sa appended
\* when the name contains by_sa
rename_split(name) ==
    IF has_by_sa(name) THEN <<name[Len(name)], "sa">> ELSE <<name[Len(name)]>>

\* RENAMES = {name: rename_split(name) for name in SPLITS}
RENAMES == [i \in 1..Len(SPLITS) |-> rename_split(SPLITS[i])]

\* os.path.isfile(split_json)
isfile_json(i) == hasJson[i]

isdirUnchecked(i) == TRUE

\* os.path.isdir(tar_dir)
isdir_tars(i) == hasDir[i]

InitSplits ==
    /\ hasJson \in [1..Len(SPLITS) -> BOOLEAN]
    /\ hasDir \in [1..Len(SPLITS) -> BOOLEAN]
    /\ di = 1
    /\ made = {}
    /\ sharded = {}
    /\ copied = {}
    /\ dpc = "check"

\* one iteration of the first loop: raise FileNotFoundError when the
\* split's metadata file or directory is missing
CheckSplit ==
    /\ dpc = "check"
    /\ IF ~isfile_json(di) \/ ~isdir_tars(di)
       THEN /\ dpc' = "FileNotFoundError"
            /\ di' = di
       ELSE IF di < Len(SPLITS)
       THEN /\ dpc' = "check"
            /\ di' = di + 1
       ELSE /\ dpc' = "resplit"
            /\ di' = 1
    /\ UNCHANGED <<hasJson, hasDir, made, sharded, copied>>

\* the second loop, up to the end of "for tar_path in resplit_tars(...)":
\* dst.mkdir(...), then os.scandir(src), which raises FileNotFoundError on
\* a missing directory, then the shards, of which there is always one
ResplitSplit ==
    /\ dpc = "resplit"
    /\ made' = made \cup {RENAMES[di]}
    /\ IF hasDir[di]
       THEN /\ sharded' = sharded \cup {RENAMES[di]}
            /\ dpc' = "copy"
       ELSE /\ sharded' = sharded
            /\ dpc' = "FileNotFoundError"
    /\ UNCHANGED <<hasJson, hasDir, di, copied>>

\* the rest of the iteration: split_json.open('rb') raises when the file
\* is missing, else the file is copied to data_dir/{name}.json
CopyJson ==
    /\ dpc = "copy"
    /\ IF hasJson[di]
       THEN /\ copied' = copied \cup {RENAMES[di]}
            /\ IF di < Len(SPLITS)
               THEN dpc' = "resplit" /\ di' = di + 1
               ELSE dpc' = "done" /\ di' = di
       ELSE /\ copied' = copied
            /\ dpc' = "FileNotFoundError"
            /\ di' = di
    /\ UNCHANGED <<hasJson, hasDir, made, sharded>>

\* do_tar_splits does not run in the other specifications
SplitsIdle ==
    /\ hasJson = <<>>
    /\ hasDir = <<>>
    /\ di = 0
    /\ made = {}
    /\ sharded = {}
    /\ copied = {}
    /\ dpc = "idle"

----------------------------------------------------------------------------
(* build_manifest                                                          *)

\* A path is its directory, as the sequence of its parts, and its file
\* name <<split, kind, number>>: <<"clean", "tar", 3>> is clean_000003.tar,
\* <<"clean", "json", 0>> is clean.json, <<"clean", "json0", 0>> is
\* clean_000000.json, and kind "other" is a file resharding never writes.
repo_dir == <<"repo_out">>
data_dir == repo_dir \o <<"data">>

\* the split names of RENAMES.values(), in the order of SPLITS
SplitNames == [i \in 1..Len(RENAMES) |-> RENAMES[i]]

\* json_path = data_dir / f"{split}.json"
json_path(split) == [dir |-> data_dir, file |-> <<split, "json", 0>>]

\* json0_path = data_dir / f"{split}_000000.json"
json0_path(split) == [dir |-> data_dir, file |-> <<split, "json0", 0>>]

\* split_path = data_dir / split
split_path(split) == data_dir \o split

\* the path resplit_tars gives shard k: dst / f"{split}_{n:06d}.tar"
shard_path(split, k) == [dir |-> split_path(split), file |-> <<split, "tar", k>>]

\* norm_path: os.path.relpath(path, repo_dir) drops the leading repo_dir
norm_path(path) == [path EXCEPT !.dir = SubSeq(@, Len(repo_dir) + 1, Len(@))]

\* hash_path: the SHA-256 of the file's content; every file of the model
\* has a content of its own, named by its path
hash_path(path) == [sha256 |-> path]

\* What a split directory may hold: the nshards archives of this run,
\* and, left by an earlier run, the archive of index nshards and a file
\* that is no archive.
Leftovers == {<<"tar", nshards>>, <<"other", 0>>}

ThisRun == {<<"tar", k>> : k \in 0..(nshards - 1)}

Orders(S) == {s \in [1..Cardinality(S) -> S] : \A a, b \in 1..Cardinality(S) : s[a] = s[b] => a = b}

\* names = [str(name) for name in split_path.iterdir()]
iterdir_names(split) ==
    [k \in 1..Len(listing) |->
        [dir |-> split_path(split), file |-> <<split, listing[k][1], listing[k][2]>>]]

HashedNamesOnly(split) == iterdir_names(split)

\* names + [str(json_path), str(json0_path)]
Hashed(split) == iterdir_names(split) \o <<json_path(split), json0_path(split)>>

\* the value of manifest["splits"][split]
ManifestEntry(split) ==
    [json_full  |-> norm_path(json_path(split)),
     json_first |-> norm_path(json0_path(split)),
     tars       |-> [k \in 1..Len(iterdir_names(split)) |-> norm_path(iterdir_names(split)[k])],
     hashes     |-> [q \in {norm_path(Hashed(split)[k]) : k \in 1..Len(Hashed(split))}
                        |-> hash_path([q EXCEPT !.dir = repo_dir \o @])]]

\* Every split directory holds the same number of archives and leftovers,
\* and iterdir() lists each in the same arbitrary order.
InitManifest ==
    /\ nshards \in 1..MaxShards
    /\ \E left \in SUBSET Leftovers : listing \in Orders(ThisRun \cup left)
    /\ mi = 1
    /\ manifest = <<>>
    /\ written = FALSE

\* one iteration of "for split in RENAMES.values()"
ManifestSplit ==
    /\ mi <= Len(SplitNames)
    /\ ~written
    /\ manifest' = Append(manifest, [split |-> SplitNames[mi], entry |-> ManifestEntry(SplitNames[mi])])
    /\ mi' = mi + 1
    /\ UNCHANGED <<nshards, listing, written>>

\* json.dump(manifest, f)
WriteManifest ==
    /\ mi = Len(SplitNames) + 1
    /\ ~written
    /\ written' = TRUE
    /\ UNCHANGED <<nshards, listing, mi, manifest>>

\* build_manifest does not run in the other specifications
ManifestIdle ==
    /\ nshards = 0
    /\ listing = <<>>
    /\ mi = 0
    /\ manifest = <<>>
    /\ written = FALSE

\* the filter does not run in this specification
FilterIdle ==
    /\ impl = "build_subsets"
    /\ tarnames = {}
    /\ lines = <<>>
    /\ filenames = {}
    /\ todo = {}
    /\ li = 0
    /\ out = <<>>
    /\ diag = -1
    /\ fpc = "idle"

Init == InitSplit /\ FilterIdle /\ RerunIdle /\ SplitsIdle /\ ManifestIdle

Next ==
    \/ OpenShard /\ UNCHANGED <<fvars, rvars, dvars, mvars>>
    \/ PullFits /\ UNCHANGED <<fvars, rvars, dvars, mvars>>
    \/ PullBreak /\ UNCHANGED <<fvars, rvars, dvars, mvars>>
    \/ Exhausted /\ UNCHANGED <<fvars, rvars, dvars, mvars>>
    \/ YieldPath /\ UNCHANGED <<fvars, rvars, dvars, mvars>>
    \/ YieldLast /\ UNCHANGED <<fvars, rvars, dvars, mvars>>

Spec == Init /\ [][Next]_vars

\* The consumer "for tar_path in resplit_tars(...): pass" resumes the
\* generator after every yield, and every statement of the generator runs
\* to the next: a step that can be taken is taken.
SpecFair == Spec /\ WF_vars(Next)

InitF == InitFilter /\ SplitIdle /\ RerunIdle /\ SplitsIdle /\ ManifestIdle

NextFilter ==
    \/ OpenTar /\ UNCHANGED <<svars, rvars, dvars, mvars>>
    \/ FilterLine /\ UNCHANGED <<svars, rvars, dvars, mvars>>
    \/ FilterLineRaises /\ UNCHANGED <<svars, rvars, dvars, mvars>>
    \/ Report /\ UNCHANGED <<svars, rvars, dvars, mvars>>

SpecFilter == InitF /\ [][NextFilter]_vars

NextTwoRuns ==
    \/ Next
    \/ Rerun /\ UNCHANGED <<fvars, dvars, mvars>>

SpecTwoRuns == Init /\ [][NextTwoRuns]_vars

InitD == InitSplits /\ SplitIdle /\ FilterIdle /\ RerunIdle /\ ManifestIdle

NextSplits ==
    \/ CheckSplit /\ UNCHANGED <<svars, fvars, rvars, mvars>>
    \/ ResplitSplit /\ UNCHANGED <<svars, fvars, rvars, mvars>>
    \/ CopyJson /\ UNCHANGED <<svars, fvars, rvars, mvars>>

SpecSplits == InitD /\ [][NextSplits]_vars

InitM == InitManifest /\ SplitIdle /\ FilterIdle /\ RerunIdle /\ SplitsIdle

NextManifest ==
    \/ ManifestSplit /\ UNCHANGED <<svars, fvars, rvars, dvars>>
    \/ WriteManifest /\ UNCHANGED <<svars, fvars, rvars, dvars>>

SpecManifest == InitM /\ [][NextManifest]_vars

----------------------------------------------------------------------------
(* What the claims about resplit_tars speak of.                            *)

RECURSIVE ConcatEntries(_)
\* the members written to the first k shards, in shard order
ConcatEntries(k) ==
    IF k = 0 THEN <<>> ELSE ConcatEntries(k - 1) \o shards[k].entries

RECURSIVE FramedSum(_)
\* the sum of 512 + size over a shard's members
FramedSum(es) ==
    IF es = <<>> THEN 0 ELSE framed(input[Head(es)]) + FramedSum(Tail(es))

MaxFramed ==
    IF input = <<>> THEN 0
    ELSE CHOOSE m \in {framed(input[i]) : i \in 1..Len(input)} :
            \A i \in 1..Len(input) : framed(input[i]) <= m

\* split_max exceeds header + trailer reserve + the largest framed size
AboveThreshold == split_max > HEADER + BLOCKSIZE + MaxFramed

\* every member alone fits the budget of an empty shard
AllFit == \A i \in 1..Len(input) : framed(input[i]) <= split_max - BLOCKSIZE

\* shard k (1-based) is not the last one the run produces
NonFinal(k) == k < Len(shards) \/ (k = Len(shards) /\ pc = "yield")

\* C1: above the threshold, the shards' members concatenated in shard
\* order are exactly the input stream: nothing lost, nothing twice, in order.
C1_NoLossNoDup ==
    (pc = "done" /\ AboveThreshold)
        => ConcatEntries(Len(shards)) = [i \in 1..Len(input) |-> i]

\* C2: when every member's framed size is at most split_max - 512, every
\* non-final shard's sum of framed sizes is at most split_max - 512.
C2_FramedSumBound ==
    AllFit => \A k \in 1..Len(shards) :
                 NonFinal(k) => FramedSum(shards[k].entries) <= split_max - BLOCKSIZE

C2_Witness ==
    /\ AllFit
    /\ \E k \in 2..Len(shards) :
          /\ NonFinal(k)
          /\ Len(shards[k].entries) >= 2
          /\ Len(shards[k - 1].entries) >= 1
          /\ shards[k].entries[1] = shards[k - 1].entries[Len(shards[k - 1].entries)] + 1
          /\ FramedSum(shards[k].entries) = split_max - BLOCKSIZE

\* C3: every closed archive, counted as headers, padded payloads and the
\* two trailer blocks, is no larger than split_max.
C3_OnDiskBound ==
    \A k \in 1..Len(shards) :
        shards[k].closed => shards[k].offset + 2 * BLOCKSIZE <= split_max

\* C4: at or below the threshold the run fails before any shard is opened
\* or yielded.
C4_FailsFast ==
    ~AboveThreshold => (shards = <<>> /\ yielded = <<>>)

\* C5 as written: an empty stream opens no archive and yields no path.
C5_ZeroShards ==
    input = <<>> => (shards = <<>> /\ yielded = <<>>)

\* C5 as amended: an empty stream produces exactly one archive, shard 0,
\* with no member, closed, and its path is yielded once.
C5_OneEmptyShard ==
    input = <<>> =>
        /\ Len(shards) <= 1
        /\ \A k \in 1..Len(shards) : shards[k].entries = <<>>
        /\ pc = "done" => /\ Len(shards) = 1
                          /\ shards[1].closed
                          /\ yielded = <<0>>

C5_Witness == input = <<>> /\ pc = "done" /\ Len(shards) = 1

\* C6: a shard is closed only when the stream is exhausted or the member
\* just pulled does not fit: offset + 512 + size > split_max - 512.
C6_ClosedOnlyWhenFull ==
    /\ \A k \in 1..Len(shards) :
          shards[k].closed => (k < Len(shards) \/ pc # "pull")
    /\ \A k \in 1..Len(shards) : k < Len(shards) => shards[k].closed
    /\ pc = "yield" =>
          /\ info = pos
          /\ info > 0
          /\ cur.closed
          /\ cur.offset + HEADER + input[info].size > split_max - BLOCKSIZE
    /\ pc \in {"last", "done"} => pos = Len(input)

C6_Witness ==
    /\ pc = "yield"
    /\ Len(cur.entries) >= 2
    /\ cur.offset + HEADER + input[info].size = split_max - BLOCKSIZE + 1

----------------------------------------------------------------------------
(* What the claims about the metadata filter speak of.                     *)

\* the lengths of a record's training_data columns
ColumnLengths(rec) ==
    {Len(rec.training_data[c]) : c \in DOMAIN rec.training_data}

NameValues(rec) ==
    {rec.training_data["name"][p] : p \in 1..Len(rec.training_data["name"])}

\* the positions of line j whose name is literally a reference-shard name
RECURSIVE SurvivorsFrom(_, _)
SurvivorsFrom(names, i) ==
    IF i > Len(names) THEN <<>>
    ELSE (IF names[i] \in tarnames THEN <<i>> ELSE <<>>) \o SurvivorsFrom(names, i + 1)

Survivors(j) == SurvivorsFrom(j.training_data["name"], 1)

RECURSIVE ExpectedFrom(_)
\* the lines with a surviving clip, in input order, each with its positions
ExpectedFrom(k) ==
    IF k > Len(lines) THEN <<>>
    ELSE (IF Survivors(lines[k]) # <<>>
          THEN <<[id |-> k, keep |-> Survivors(lines[k])]>> ELSE <<>>)
         \o ExpectedFrom(k + 1)

C10_KeepsExactlyNamed ==
    fpc \in {"done", "KeyError"} =>
        LET exp == ExpectedFrom(1)
        IN  /\ Len(out) = Len(exp)
            /\ \A k \in 1..Len(out) :
                  /\ out[k].id = exp[k].id
                  /\ \A c \in DOMAIN out[k].training_data :
                        out[k].training_data[c] =
                            [p \in 1..Len(exp[k].keep) |->
                                lines[exp[k].id].training_data[c][exp[k].keep[p]]]

\* C11: every emitted record keeps its input line's passthrough fields and
\* exactly its input line's training_data column names.
C11_FrameKept ==
    \A k \in 1..Len(out) :
        LET j == lines[out[k].id]
        IN  /\ out[k] = [j EXCEPT !.training_data = out[k].training_data]
            /\ DOMAIN out[k].training_data = DOMAIN j.training_data

\* the names the clips of the stream look up in filenames
AllLookedUp ==
    UNION {{LookupName(lines[k].training_data["name"][p]) :
                p \in 1..Len(lines[k].training_data["name"])} : k \in 1..Len(lines)}

\* C12: the pass never aborts: it reads every line and then reports how
\* many reference names no record matched (nothing when there is none).
C12_NeverAborts ==
    /\ fpc # "KeyError"
    /\ fpc = "done" =>
          /\ li = Len(lines)
          /\ (IF diag = -1 THEN 0 ELSE diag) = Cardinality(filenames \ AllLookedUp)

\* C17: a member held back for the next shard fits an empty shard alone:
\* 512 + size <= split_max - 512, whatever the input and split_max.
C17_PendingFitsAlone ==
    pc \in {"yield", "open"} /\ info # 0 /\ Len(shards) >= 1
        => framed(input[info]) <= split_max - BLOCKSIZE

\* the stream ended right after its last member was held back: the last
\* member is in no earlier shard and was not pulled into the current one
HeldBackAtEnd ==
    /\ pc \in {"pull", "last", "done"}
    /\ Len(input) > 0
    /\ pos = Len(input)
    /\ Len(shards) >= 2
    /\ \A k \in 1..(Len(shards) - 1) :
          \A p \in 1..Len(shards[k].entries) : shards[k].entries[p] # Len(input)
    /\ (cur.entries = <<>> \/ cur.entries[1] = Len(input))
    /\ Len(cur.entries) <= 1

\* C18: the shard being filled when the stream runs out is the last one,
\* closed and yielded, with no shard after it; when the stream ends right
\* after a member was held back, the one further shard holds that member
\* and nothing else.
C18_LastShard ==
    /\ pc \in {"last", "done"} => /\ pos = Len(input)
                                  /\ cur.closed
                                  /\ n = Len(shards) - 1
    /\ pc = "done" => yielded = [i \in 1..Len(shards) |-> i - 1]
    /\ HeldBackAtEnd => cur.entries = <<Len(input)>>

\* C20: for a non-empty stream whose members each fit an empty shard, no
\* archive is written without a member.
C20_NoEmptyShard ==
    (input # <<>> /\ AllFit) =>
        \A k \in 1..Len(shards) : shards[k].closed => shards[k].entries # <<>>

\* C19: on every finite stream and for every split_max the generator
\* finishes, having opened at most one shard more than there are members.
C19_Terminates ==
    /\ [](Len(shards) <= Len(input) + 1)
    /\ [](pc = "yield" => pos >= Len(shards))
    /\ <>(pc = "done")

C19_Witness == pc = "done" /\ Len(shards) = Len(input) + 1 /\ Len(input) >= 3

SomeMissing == \E i \in 1..Len(SPLITS) : ~hasJson[i] \/ ~hasDir[i]

\* C13: when a metadata file or a source directory is missing, the run
\* fails in the checking loop and never creates a destination directory,
\* writes a shard or copies a metadata file, for any split.
C13_NoOutputWhenMissing ==
    SomeMissing =>
        /\ made = {}
        /\ sharded = {}
        /\ copied = {}
        /\ dpc \in {"check", "FileNotFoundError"}

C13_Witness ==
    /\ dpc = "FileNotFoundError"
    /\ di = Len(SPLITS)
    /\ ~hasDir[Len(SPLITS)]
    /\ \A i \in 1..(Len(SPLITS) - 1) : hasJson[i] /\ hasDir[i]
    /\ made = {}

\* C14: in the written manifest every split's tars is the sequence of the
\* shard paths this run's resharding produced, in shard index order,
\* whatever else the destination directory held.
C14_TarsAreThisRunsShards ==
    written =>
        \A i \in 1..Len(manifest) :
            manifest[i].entry.tars =
                [k \in 1..nshards |-> norm_path(shard_path(manifest[i].split, k - 1))]

\* C15: in the written manifest the keys of every split's hashes are
\* exactly json_full, json_first and the paths of tars.
C15_HashKeysAreArtifacts ==
    written =>
        /\ Len(manifest) = Len(SplitNames)
        /\ \A i \in 1..Len(manifest) :
              LET e == manifest[i].entry
              IN  DOMAIN e.hashes =
                      {e.json_full, e.json_first} \cup {e.tars[k] : k \in 1..Len(e.tars)}

C15_Witness ==
    /\ written
    /\ Len(manifest) = 4
    /\ Len(manifest[4].entry.tars) = nshards + 2
    /\ Cardinality(DOMAIN manifest[4].entry.hashes) = nshards + 4
    /\ manifest[4].split = <<"dirty", "sa">>

====
